---- MODULE Spec2Model ----
(***************************************************************************)
(* Model of the long-form generation and chunked audio-synthesis pipeline  *)
(* of the repository: the streaming job endpoints of src/api/server.js,    *)
(* the audio pipeline of services/fishAudio.js (src/unnamed/part_001), the *)
(* job map with its eviction sweep, chapter-based script generation and   *)
(* the routing of script requests of src/services/scriptWriter.js, and the *)
(* text splitter, the chapter validator, the outline parser and the files  *)
(* of a multi-chunk audio run as pure functions, the client's polling      *)
(* fallback (src/unnamed/part_002), and two concurrent streaming requests. *)
(*                                                                         *)
(* One action is one run of the JavaScript event loop for the owning task: *)
(* the code between two awaits that wait for I/O (network, filesystem or   *)
(* timer).  Promise continuations that need no I/O run in the same action, *)
(* because no HTTP request (such as a job-status poll) can be served       *)
(* between them.                                                           *)
(***************************************************************************)
EXTENDS Integers, Sequences, FiniteSets, TLC

VARIABLES
  activeJobs,   \* server.js:88     the job map, jobId -> jobData
  now,          \* wall clock, in minutes since the server started
  pc,           \* position of the streaming request's background task
  req,          \* the streaming request being served (its inputs)
  chunkIdx,     \* part_001:340     loop variable i of generateLongAudio
  tempAudioFiles, \* part_001:323   temp paths pushed so far
  files,        \* the filesystem: the set of paths that exist
  stream,       \* events written with res.write and received by the client
  streamEnded,  \* res.end() was called
  connected,    \* the client connection of the streaming request is open
  calls,        \* external service calls issued by the task, in order
  jobLog,       \* every update applied to the task's jobData, in order
  raised,       \* the error the failing call of the audio pipeline run raised
  thrown,       \* the error the audio pipeline run propagated to its caller
  audioResult,  \* server.js:154   the value the audio pipeline run returned
  cleanupIdx,   \* part_001:402    position of the temp-file cleanup loop
  swTask,       \* job map over time: each job's task, "none", "running" or
                \* "ended"
  lastSweep,    \* job map over time: when the eviction sweep last ran and the
                \* records it removed
  swPc,         \* script generation: position in generateLongScriptFromPreview
  swPreview,    \* scriptWriter.js:633  number of chapters of the preview
  swChapter,    \* scriptWriter.js:647  loop variable i (0-based)
  swAttempt,    \* scriptWriter.js:524  loop variable attempt
  swChunks,     \* scriptWriter.js:641  accepted chapter texts
  swCalls,      \* text-generation calls issued for chapters, with outcomes
  swOut,        \* script generation: saved file, returned script, error
  swReq,        \* script generation: the request, its entry point and route
  fn,           \* the last pure function applied, its arguments and result
  poll,         \* client: the polling fallback started for one job
  pollJob,      \* client: what the server holds for the polled job
  pair,         \* two concurrent streaming requests: each one's progress
  ms,           \* two concurrent requests: Date.now(), in milliseconds
  jobRef,       \* two concurrent requests: activeJobs, id -> jobData object
  disk          \* two concurrent requests: path -> request that wrote it last

jobVars == <<pc, req, chunkIdx, tempAudioFiles, files, stream, streamEnded,
             connected, calls, jobLog, raised, thrown, audioResult,
             cleanupIdx>>
sweepVars == <<swTask, lastSweep>>
scriptVars == <<swPc, swPreview, swChapter, swAttempt, swChunks, swCalls, swOut,
                swReq>>
fnVars == <<fn>>
clientVars == <<poll, pollJob>>
pairVars == <<pair, ms, jobRef, disk>>
vars == <<activeJobs, now, jobVars, sweepVars, scriptVars, fnVars, clientVars, pairVars>>

----------------------------------------------------------------------------
(* Bounds *)

MaxChunks == 12     \* largest number of chunks of one audio run
MaxSweeps == 2      \* the clock stops shortly after this many sweeps
ClockSlack == 1     \* the clock visits the minutes this close to a sweep
MaxChapters == 3    \* largest number of chapters of a preview
MaxLen == 4         \* longest text given to the splitter, in characters
MaxChunkSize == 3   \* largest chunkSize given to the splitter
MaxExpected == 2    \* largest expected duration, in tenths of a minute

----------------------------------------------------------------------------
(* Values *)

NoProgress == -1    \* an event without a progress key
NoDuration == -1    \* options without a duration key

Null == [isNull |-> TRUE, fields |-> {}]

JobId == "j1"       \* the id generated for the streaming request

Terminal == {"complete", "error"}

\* part_001:76-85: the errors generateAudio throws
SynthesisErrors == {"FishAudio API error", "Network error", "synthesis error"}

\* part_001:432: the catch block of generateLongAudio reads tempAudioFiles,
\* which is declared with const inside the try block (line 323)
ReferenceError == "tempAudioFiles is not defined"

FsError == "filesystem error"
EmptyScriptError == "Script file is empty"
TextGenError == "text generation failed"

\* Math.round(a / b) for a >= 0, b > 0 (halves round up)
Round(a, b) == (2 * a + b) \div (2 * b)

\* A progress event as the audio pipeline or the server builds it; jobId is
\* filled in by sendProgress.
Event(type, progress) ==
  [type |-> type, progress |-> progress, data |-> Null, error |-> "null",
   jobId |-> "none"]

----------------------------------------------------------------------------
(* The job record and the functions that update it *)

\* server.js:125-133 and 341-350
NewJob(t) ==
  [status |-> "starting", progress |-> 0, lastUpdate |-> t,
   result |-> Null, error |-> "null", completed |-> FALSE]

\* server.js:139 and 356: data.progress || jobData.progress
ProgressOr(p, old) == IF p = NoProgress \/ p = 0 THEN old ELSE p

\* What the task carries through one run of the event loop: its job record,
\* the log of updates, the events the client received and whether the
\* client is still connected.
TaskState ==
  [job |-> activeJobs[JobId], log |-> jobLog, out |-> stream,
   conn |-> connected]

\* server.js:144 and 361: res.write reaches the client while it is connected
ResWrite(out, ev, conn) == IF conn THEN Append(out, ev) ELSE out

\* server.js:136-145 and 353-362: sendProgress
SendProgress(s, data) ==
  LET job == [s.job EXCEPT !.lastUpdate = now,
                           !.progress = ProgressOr(data.progress, @),
                           !.status = data.type]
  IN [s EXCEPT !.job = job,
                !.log = Append(s.log, job),
                !.out = ResWrite(s.out, [data EXCEPT !.jobId = JobId], s.conn)]

\* server.js:429-433: Math.round(55 + (audioProgress.progress || 0) * 0.4)
PipelineProgress(p) == Round(550 + 4 * ProgressOr(p, 0), 10)

\* server.js:162, 175 (onProgress: sendProgress) and 427-436 (the wrapper)
OnProgress(s, ev) ==
  IF req.endpoint = "audio"
  THEN SendProgress(s, ev)
  ELSE SendProgress(s, Event("audio_progress", PipelineProgress(ev.progress)))

\* part_001:352: progress of the chunk_start event of chunk i of n
ChunkStartProgress(i, n) == Round(i * 100, n)

\* part_001:381: progress of the chunk_complete event of chunk i of n
ChunkCompleteProgress(i, n) == Round((i + 1) * 90, n)

\* part_001:271-280: the result object of the single-chunk path
SingleResult ==
  [isNull |-> FALSE,
   fields |-> {"outputPath", "scriptPath", "fileSize", "estimatedDuration",
               "duration", "wordCount", "format", "generatedAt"}]

\* part_001:421-428: the result object of generateLongAudio
LongResult ==
  [isNull |-> FALSE,
   fields |-> {"outputPath", "duration", "wordCount", "chunks", "format",
               "generatedAt"}]

\* server.js:190-196: the data of the audio endpoint's complete event
AudioPayload(r) ==
  [isNull |-> FALSE,
   fields |-> {"outputPath", "format", "generatedAt"}
                \cup (r.fields \cap {"fileSize", "estimatedDuration"})]

\* server.js:442-457: finalResult of the pipeline endpoint
FinalResult(r) ==
  [isNull |-> FALSE,
   fields |-> {"script", "audio.outputPath", "audio.format", "generatedAt"}
                \cup (IF "fileSize" \in r.fields
                      THEN {"audio.fileSize"} ELSE {})
                \cup (IF "estimatedDuration" \in r.fields
                      THEN {"audio.estimatedDuration"} ELSE {})]

\* server.js:181-199 and 441-471: the job's final update and complete event
Finalize(s, r) ==
  LET res == IF req.endpoint = "audio" THEN r ELSE FinalResult(r)
      job == [s.job EXCEPT !.status = "complete", !.progress = 100,
                           !.result = res, !.completed = TRUE]
      ev == [Event("complete",
                   IF req.endpoint = "audio" THEN NoProgress ELSE 100)
               EXCEPT !.data = IF req.endpoint = "audio"
                               THEN AudioPayload(r) ELSE res]
  IN SendProgress([s EXCEPT !.job = job, !.log = Append(s.log, job)], ev)

\* server.js:200-211 and 472-483: the catch block of the streaming branch
Fail(s, err) ==
  LET job == [s.job EXCEPT !.status = "error", !.error = err,
                           !.completed = TRUE]
  IN SendProgress([s EXCEPT !.job = job, !.log = Append(s.log, job)],
                  [Event("error", NoProgress) EXCEPT !.error = err])

\* part_001:430-442: the catch block of generateLongAudio.  tempAudioFiles
\* is declared inside the try block, so reading it here raises a
\* ReferenceError before any temp file is removed and before the original
\* error is rethrown.
LongAudioCatch(err, fs, temps) ==
  [error |-> ReferenceError, files |-> fs]

----------------------------------------------------------------------------
(* Initial state: the server has started, no request has arrived *)

Init ==
  /\ activeJobs = << >>
  /\ now = 0
  /\ pc = "idle"
  /\ req = [endpoint |-> "none", source |-> "none", preview |-> FALSE,
            long |-> FALSE, n |-> 0]
  /\ chunkIdx = 0
  /\ tempAudioFiles = << >>
  /\ files = {}
  /\ stream = << >>
  /\ streamEnded = FALSE
  /\ connected = FALSE
  /\ calls = << >>
  /\ jobLog = << >>
  /\ raised = "null"
  /\ thrown = "null"
  /\ audioResult = Null
  /\ cleanupIdx = 0
  /\ swTask = [j \in {"j1", "j2"} |-> "none"]
  /\ lastSweep = [at |-> 0, removed |-> << >>]
  /\ swPc = "idle"
  /\ swPreview = 0
  /\ swChapter = 0
  /\ swAttempt = 0
  /\ swChunks = << >>
  /\ swCalls = << >>
  /\ swOut = [saved |-> FALSE, returned |-> << >>, error |-> "null",
              chapterStats |-> << >>, waited |-> << >>]
  /\ swReq = [entry |-> "none", duration |-> NoDuration,
              estimated |-> NoDuration, path |-> "none"]
  /\ fn = [name |-> "none"]
  /\ poll = [started |-> FALSE, interval |-> FALSE, timer |-> FALSE,
             clock |-> 0, inflight |-> << >>,
             last |-> [code |-> 0, success |-> FALSE, status |-> "none",
                       result |-> Null, error |-> "null",
                       isComplete |-> FALSE],
             outcome |-> [state |-> "pending", value |-> "none"]]
  /\ pollJob = (JobId :> [status |-> "processing", result |-> Null,
                          error |-> "null"])
  /\ pair = [r \in {1, 2} |->
               [pc |-> "idle", source |-> "none", jobId |-> <<"none", 0, 0>>,
                tempFile |-> <<"none", 0, 0>>,
                outputPath |-> <<"none", 0, 0>>,
                tempPath |-> <<"none", 0, 0>>]]
  /\ ms = 0
  /\ jobRef = << >>
  /\ disk = << >>

----------------------------------------------------------------------------
(* The streaming request's task: POST /api/generate-audio and             *)
(* POST /api/script-to-audio with Accept: text/event-stream               *)

TempText == <<"temp_text", 0>>      \* server.js:168
ScriptFile == <<"script", 0>>       \* scriptWriter.js:862
OutputFile == <<"output", 0>>       \* part_001:215
ChunkFile(i) == <<"chunk", i>>      \* part_001:342

\* A synthesis call that is always for the first chunk
TtsFirstChunk(i) == [svc |-> "tts", idx |-> 0]

\* part_001:357-362 and 251-256: a synthesis call for chunk i
Tts(i) == [svc |-> "tts", idx |-> i]
TextGen(k) == [svc |-> "text", idx |-> k]

\* The task's job record, update log and event stream after this step
Commit(s) ==
  /\ activeJobs' = [activeJobs EXCEPT ![JobId] = s.job]
  /\ jobLog' = s.log
  /\ stream' = s.out

\* server.js:200-212 and 472-484: an error reaches the streaming branch's
\* catch block; the job fails and the stream is ended
Throw(s, err) ==
  /\ Commit(Fail(s, err))
  /\ streamEnded' = TRUE
  /\ pc' = "done"

\* server.js:171-199 and 439-471: the audio pipeline run returned r
ReturnAudio(s, r) ==
  /\ audioResult' = r
  /\ IF req.endpoint = "audio" /\ req.source = "text"
     THEN \* server.js:178: await fs.remove(tempFile)
          /\ Commit(s)
          /\ pc' = "a_rmtemp"
          /\ UNCHANGED streamEnded
     ELSE /\ Commit(Finalize(s, r))
          /\ streamEnded' = TRUE
          /\ pc' = "done"

\* server.js:91-179: the audio endpoint accepts a streaming request
StartAudio(source) ==
  /\ pc = "idle"
  /\ req' = [req EXCEPT !.endpoint = "audio", !.source = source]
  /\ activeJobs' = [j \in DOMAIN activeJobs \cup {JobId} |->
                      IF j = JobId THEN NewJob(now) ELSE activeJobs[j]]
  /\ jobLog' = <<NewJob(now)>>
  /\ connected' = TRUE
  /\ pc' = IF source = "text" THEN "a_mktemp" ELSE "ap_read"
  /\ UNCHANGED <<now, chunkIdx, tempAudioFiles, files, stream, streamEnded,
                 calls, raised, thrown, audioResult, cleanupIdx, sweepVars, scriptVars, fnVars, clientVars, pairVars>>

\* server.js:165-169: ensureDir and writeFile of the temporary text file
AudioWriteTempText(ok) ==
  /\ pc = "a_mktemp"
  /\ IF ok
     THEN /\ files' = files \cup {TempText}
          /\ pc' = "ap_read"
          /\ UNCHANGED <<activeJobs, jobLog, stream, streamEnded>>
     ELSE /\ Throw(TaskState, FsError)
          /\ UNCHANGED files
  /\ UNCHANGED <<now, req, chunkIdx, tempAudioFiles, connected, calls, raised, thrown,
                 audioResult, cleanupIdx, sweepVars, scriptVars, fnVars, clientVars, pairVars>>

\* server.js:306-400: the pipeline endpoint accepts a streaming request
StartPipeline(preview) ==
  /\ pc = "idle"
  /\ req' = [req EXCEPT !.endpoint = "pipeline", !.source = "file",
                        !.preview = preview]
  /\ connected' = TRUE
  /\ LET s0 == [job |-> NewJob(now), log |-> <<NewJob(now)>>,
                out |-> stream, conn |-> TRUE]
         s1 == SendProgress(s0, Event("pipeline_start", 0))
         s2 == SendProgress(s1, Event("script_generation", 10))
     IN /\ activeJobs' = [j \in DOMAIN activeJobs \cup {JobId} |->
                            IF j = JobId THEN s2.job ELSE activeJobs[j]]
        /\ jobLog' = s2.log
        /\ stream' = s2.out
  /\ calls' = Append(calls, TextGen(0))
  /\ pc' = "p_preview"
  /\ UNCHANGED <<now, chunkIdx, tempAudioFiles, files, streamEnded, raised, thrown,
                 audioResult, cleanupIdx, sweepVars, scriptVars, fnVars, clientVars, pairVars>>

\* server.js:396-399, scriptWriter.js:262-300: generateScriptPreview returns
\* or throws; on success the script body is requested
PipelinePreview(ok) ==
  /\ pc = "p_preview"
  /\ IF ok
     THEN /\ calls' = Append(calls, TextGen(1))
          /\ pc' = "p_script"
          /\ UNCHANGED <<activeJobs, jobLog, stream, streamEnded>>
     ELSE /\ Throw(TaskState, TextGenError)
          /\ UNCHANGED calls
  /\ UNCHANGED <<now, req, chunkIdx, tempAudioFiles, files, connected, raised, thrown,
                 audioResult, cleanupIdx, sweepVars, scriptVars, fnVars, clientVars, pairVars>>

\* server.js:397-439: the script is generated and saved, or generation
\* throws; on success the audio pipeline is started on the saved file
PipelineScript(ok) ==
  /\ pc = "p_script"
  /\ IF ok
     THEN /\ files' = files \cup {ScriptFile}
          /\ LET s1 == SendProgress(TaskState, Event("script_complete", 50))
                 s2 == SendProgress(s1, Event("audio_start", 55))
             IN Commit(s2)
          /\ pc' = "ap_read"
          /\ UNCHANGED streamEnded
     ELSE /\ Throw(TaskState, TextGenError)
          /\ UNCHANGED files
  /\ UNCHANGED <<now, req, chunkIdx, tempAudioFiles, connected, calls, raised, thrown,
                 audioResult, cleanupIdx, sweepVars, scriptVars, fnVars, clientVars, pairVars>>

\* part_001:196-256 and 318-362: generateAudioFromScriptWithProgress reads
\* the script; outcome "ok" carries whether the script is longer than
\* chunkSize and the number n of chunks splitTextIntoChunks returns for it
AudioReadScript(outcome, long, n) ==
  /\ pc = "ap_read"
  /\ long \/ n = 1
  /\ IF outcome = "ok"
     THEN /\ req' = [req EXCEPT !.long = long, !.n = n]
          /\ LET s1 == OnProgress(TaskState, Event("start", NoProgress))
                 s2 == OnProgress(s1, Event("chunks_created", NoProgress))
                 s3 == OnProgress(s2, Event("chunk_start",
                                            ChunkStartProgress(0, n)))
                 t2 == OnProgress(s1, Event("single_chunk", 50))
             IN Commit(IF long THEN s3 ELSE t2)
          /\ calls' = Append(calls, Tts(0))
          /\ pc' = IF long THEN "ap_synth" ELSE "ap_synth1"
          /\ UNCHANGED <<raised, thrown, streamEnded>>
     ELSE /\ long = FALSE /\ n = 1
          /\ LET e == IF outcome = "empty" THEN EmptyScriptError ELSE FsError
             IN raised' = e /\ thrown' = e /\ Throw(TaskState, e)
          /\ UNCHANGED <<req, calls>>
  /\ UNCHANGED <<now, chunkIdx, tempAudioFiles, files, connected,
                 audioResult, cleanupIdx, sweepVars, scriptVars, fnVars, clientVars, pairVars>>

\* part_001:251-256 and 15-87: the single synthesis call returns or throws
AudioSynthSingle(err) ==
  /\ pc = "ap_synth1"
  /\ IF err = "null"
     THEN /\ pc' = "ap_write1"
          /\ UNCHANGED <<activeJobs, jobLog, stream, streamEnded, raised, thrown>>
     ELSE /\ raised' = err
          /\ thrown' = err
          /\ Throw(TaskState, err)
  /\ UNCHANGED <<now, req, chunkIdx, tempAudioFiles, files, connected, calls,
                 audioResult, cleanupIdx, sweepVars, scriptVars, fnVars, clientVars, pairVars>>

\* part_001:258-263 and 298-299: the audio stream is piped to the output file
AudioWriteSingle(ok) ==
  /\ pc = "ap_write1"
  /\ files' = files \cup {OutputFile}
  /\ IF ok
     THEN /\ pc' = "ap_stat1"
          /\ UNCHANGED <<activeJobs, jobLog, stream, streamEnded, raised, thrown>>
     ELSE /\ raised' = FsError
          /\ thrown' = FsError
          /\ Throw(TaskState, FsError)
  /\ UNCHANGED <<now, req, chunkIdx, tempAudioFiles, connected, calls,
                 audioResult, cleanupIdx, sweepVars, scriptVars, fnVars, clientVars, pairVars>>

\* part_001:263-296: fs.stat, the result object, the complete event, resolve
AudioStatSingle(ok) ==
  /\ pc = "ap_stat1"
  /\ IF ok
     THEN /\ ReturnAudio(OnProgress(TaskState, Event("complete", 100)),
                         SingleResult)
          /\ UNCHANGED <<raised, thrown>>
     ELSE /\ raised' = FsError
          /\ thrown' = FsError
          /\ Throw(TaskState, FsError)
          /\ UNCHANGED audioResult
  /\ UNCHANGED <<now, req, chunkIdx, tempAudioFiles, files, connected, calls,
                 cleanupIdx, sweepVars, scriptVars, fnVars, clientVars, pairVars>>

\* part_001:430-442, then 302-305 and server.js:200-212: an error inside the
\* try block of generateLongAudio goes through its catch block and on to
\* the streaming branch's catch block
LongAudioThrow(err, fs) ==
  LET c == LongAudioCatch(err, fs, tempAudioFiles)
  IN /\ files' = c.files
     /\ raised' = err
     /\ thrown' = c.error
     /\ Throw(TaskState, c.error)

\* part_001:357-362 and 15-87: the synthesis call of chunk i returns or throws
AudioSynthChunk(err) ==
  /\ pc = "ap_synth"
  /\ IF err = "null"
     THEN /\ pc' = "ap_write"
          /\ UNCHANGED <<activeJobs, jobLog, stream, streamEnded, raised, thrown, files>>
     ELSE LongAudioThrow(err, files)
  /\ UNCHANGED <<now, req, chunkIdx, tempAudioFiles, connected, calls,
                 audioResult, cleanupIdx, sweepVars, scriptVars, fnVars, clientVars, pairVars>>

\* part_001:364-395: chunk i's bytes are written to its temp file; then the
\* chunk_complete event and either the next chunk's chunk_start event and
\* synthesis call, or the combining event and combineAudioFiles
AudioWriteChunk(ok) ==
  /\ pc = "ap_write"
  /\ LET i == chunkIdx
         n == req.n
         written == files \cup {ChunkFile(i)}
         s1 == OnProgress(TaskState,
                          Event("chunk_complete", ChunkCompleteProgress(i, n)))
         s2 == OnProgress(s1, Event("chunk_start",
                                    ChunkStartProgress(i + 1, n)))
         t2 == OnProgress(s1, Event("combining", 90))
     IN IF ok
        THEN /\ files' = written
             /\ tempAudioFiles' = Append(tempAudioFiles, ChunkFile(i))
             /\ IF i + 1 < n
                THEN /\ chunkIdx' = i + 1
                     /\ Commit(s2)
                     /\ calls' = Append(calls, Tts(i + 1))
                     /\ pc' = "ap_synth"
                ELSE /\ Commit(t2)
                     /\ pc' = "ap_combine"
                     /\ UNCHANGED <<chunkIdx, calls>>
             /\ UNCHANGED <<streamEnded, raised, thrown>>
        ELSE /\ LongAudioThrow(FsError, written)
             /\ UNCHANGED <<tempAudioFiles, chunkIdx, calls>>
  /\ UNCHANGED <<now, req, connected, audioResult, cleanupIdx, sweepVars,
                 scriptVars, fnVars, clientVars, pairVars>>

\* part_001:399 and 470-489: combineAudioFiles writes the output file
AudioCombine(ok) ==
  /\ pc = "ap_combine"
  /\ IF ok
     THEN /\ files' = files \cup {OutputFile}
          /\ cleanupIdx' = 1
          /\ pc' = "ap_cleanup"
          /\ UNCHANGED <<activeJobs, jobLog, stream, streamEnded, raised, thrown>>
     ELSE /\ LongAudioThrow(FsError, files \cup {OutputFile})
          /\ UNCHANGED cleanupIdx
  /\ UNCHANGED <<now, req, chunkIdx, tempAudioFiles, connected, calls,
                 audioResult, sweepVars, scriptVars, fnVars, clientVars, pairVars>>

\* part_001:401-428: one temp file is removed; after the last one the
\* complete event is emitted and the result returned
AudioCleanup ==
  /\ pc = "ap_cleanup"
  /\ files' = files \ {tempAudioFiles[cleanupIdx]}
  /\ IF cleanupIdx < Len(tempAudioFiles)
     THEN /\ cleanupIdx' = cleanupIdx + 1
          /\ UNCHANGED <<activeJobs, jobLog, stream, streamEnded, pc,
                         audioResult>>
     ELSE /\ ReturnAudio(OnProgress(TaskState, Event("complete", 100)),
                         LongResult)
          /\ UNCHANGED cleanupIdx
  /\ UNCHANGED <<now, req, chunkIdx, tempAudioFiles, connected, calls, raised, thrown,
                 sweepVars, scriptVars, fnVars, clientVars, pairVars>>

\* server.js:178-199: the temporary text file is removed, then the job's
\* final update and the complete event
AudioRemoveTempText(ok) ==
  /\ pc = "a_rmtemp"
  /\ IF ok
     THEN /\ files' = files \ {TempText}
          /\ Commit(Finalize(TaskState, audioResult))
          /\ streamEnded' = TRUE
          /\ pc' = "done"
     ELSE /\ Throw(TaskState, FsError)
          /\ UNCHANGED files
  /\ UNCHANGED <<now, req, chunkIdx, tempAudioFiles, connected, calls, raised, thrown,
                 audioResult, cleanupIdx, sweepVars, scriptVars, fnVars, clientVars, pairVars>>

\* A close handler that cancels the task
OnCloseAborts(p) == "done"

\* server.js:147-151 and 364-368: the req.on('close') handler only logs;
\* the task's position is what it was
OnClose(p) == p

\* The client connection of the streaming request closes
Disconnect ==
  /\ pc \notin {"idle", "done"}
  /\ connected
  /\ connected' = FALSE
  /\ pc' = OnClose(pc)
  /\ UNCHANGED <<activeJobs, now, req, chunkIdx, tempAudioFiles, files, stream,
                 streamEnded, calls, jobLog, raised, thrown, audioResult, cleanupIdx,
                 sweepVars, scriptVars, fnVars, clientVars, pairVars>>

TaskStep ==
  \/ \E ok \in BOOLEAN : AudioWriteTempText(ok)
  \/ \E ok \in BOOLEAN : PipelinePreview(ok)
  \/ \E ok \in BOOLEAN : PipelineScript(ok)
  \/ \E o \in {"ok", "empty", "fail"}, long \in BOOLEAN, n \in 1..MaxChunks :
       AudioReadScript(o, long, n)
  \/ \E e \in SynthesisErrors \cup {"null"} : AudioSynthSingle(e)
  \/ \E ok \in BOOLEAN : AudioWriteSingle(ok)
  \/ \E ok \in BOOLEAN : AudioStatSingle(ok)
  \/ \E e \in SynthesisErrors \cup {"null"} : AudioSynthChunk(e)
  \/ \E ok \in BOOLEAN : AudioWriteChunk(ok)
  \/ \E ok \in BOOLEAN : AudioCombine(ok)
  \/ AudioCleanup
  \/ \E ok \in BOOLEAN : AudioRemoveTempText(ok)

Next ==
  \/ \E source \in {"file", "text"} : StartAudio(source)
  \/ \E preview \in BOOLEAN : StartPipeline(preview)
  \/ TaskStep
  \/ Disconnect

Spec == Init /\ [][Next]_vars

\* The event loop runs a task's continuation once its awaited call has
\* returned or failed
SpecLive == Spec /\ WF_vars(TaskStep)

----------------------------------------------------------------------------
(* The job map over time: several jobs, the clock and the eviction sweep. *)
(* Here a job's task is followed only through its updates of the record.  *)

JobOrder == <<"j1", "j2">>
SweepJobIds == {JobOrder[i] : i \in 1..Len(JobOrder)}

MaxAge == 30          \* server.js:294   30 * 60 * 1000 ms, in minutes
SweepInterval == 30   \* server.js:303   30 * 60 * 1000 ms, in minutes

\* Map.prototype.delete
MapDelete(jobs, j) == [k \in DOMAIN jobs \ {j} |-> jobs[k]]

\* An eviction test that also removes a job of exactly maxAge
ExpiredInclusive(job, t) == t - job.lastUpdate >= MaxAge

\* server.js:297-298: age = now - job.lastUpdate; age > maxAge
Expired(job, t) == t - job.lastUpdate > MaxAge

\* server.js:296-302: the loop over activeJobs.entries()
RECURSIVE CleanupLoop(_, _, _)
CleanupLoop(jobs, ids, t) ==
  IF ids = {}
  THEN jobs
  ELSE LET j == CHOOSE x \in ids : TRUE
       IN CleanupLoop(IF Expired(jobs[j], t) THEN MapDelete(jobs, j) ELSE jobs,
                      ids \ {j}, t)

\* server.js:264-289: GET /api/job-status/:jobId
GetJobStatus(jobs, j) ==
  IF j \notin DOMAIN jobs
  THEN [code |-> 404, status |-> "none", result |-> Null, isComplete |-> FALSE]
  ELSE [code |-> 200, status |-> jobs[j].status, result |-> jobs[j].result,
        isComplete |-> jobs[j].status \in Terminal]

\* jobData as the task holds it: the record in the map, if it is still there
Update(jobs, j, job) ==
  IF j \in DOMAIN jobs THEN [jobs EXCEPT ![j] = job] ELSE jobs

Held(j) == [job |-> activeJobs[j], log |-> << >>, out |-> << >>, conn |-> FALSE]

\* server.js:325: ids are generated from the clock and a random suffix;
\* the model hands them out in order
NextJobId(j) ==
  \A i \in 1..Len(JobOrder) :
    JobOrder[i] = j => \A k \in 1..(i - 1) : swTask[JobOrder[k]] # "none"

\* server.js:341-392: a streaming pipeline request creates its job record and
\* reports the first two stages
JobCreate(j) ==
  /\ swTask[j] = "none"
  /\ NextJobId(j)
  /\ LET s0 == [job |-> NewJob(now), log |-> << >>, out |-> << >>,
                conn |-> FALSE]
         s1 == SendProgress(s0, Event("pipeline_start", 0))
         s2 == SendProgress(s1, Event("script_generation", 10))
     IN activeJobs' = [k \in DOMAIN activeJobs \cup {j} |->
                         IF k = j THEN s2.job ELSE activeJobs[k]]
  /\ swTask' = [swTask EXCEPT ![j] = "running"]
  /\ UNCHANGED <<now, lastSweep, jobVars, scriptVars, fnVars, clientVars, pairVars>>

\* server.js:402-436: the task reports a later stage
JobProgress(j) ==
  /\ swTask[j] = "running"
  /\ j \in DOMAIN activeJobs
  /\ activeJobs' = Update(activeJobs, j,
                     SendProgress(Held(j), Event("audio_progress", 55)).job)
  /\ UNCHANGED <<now, swTask, lastSweep, jobVars, scriptVars, fnVars, clientVars, pairVars>>

\* server.js:459-469 and 474-483: the task ends
JobFinish(j, ok) ==
  /\ swTask[j] = "running"
  /\ swTask' = [swTask EXCEPT ![j] = "ended"]
  /\ IF j \in DOMAIN activeJobs
     THEN activeJobs' = Update(activeJobs, j,
            IF ok
            THEN SendProgress([Held(j) EXCEPT !.job.status = "complete",
                                              !.job.progress = 100,
                                              !.job.result = FinalResult(SingleResult),
                                              !.job.completed = TRUE],
                              Event("complete", 100)).job
            ELSE Fail(Held(j), TextGenError).job)
     ELSE UNCHANGED activeJobs
  /\ UNCHANGED <<now, lastSweep, jobVars, scriptVars, fnVars, clientVars, pairVars>>

SweepDue == now > 0 /\ now % SweepInterval = 0 /\ lastSweep.at < now

\* server.js:291-303: the setInterval callback
Sweep ==
  /\ SweepDue
  /\ activeJobs' = CleanupLoop(activeJobs, DOMAIN activeJobs, now)
  /\ lastSweep' = [at |-> now,
                   removed |-> [j \in DOMAIN activeJobs \ DOMAIN activeJobs' |->
                                  activeJobs[j]]]
  /\ UNCHANGED <<now, swTask, jobVars, scriptVars, fnVars, clientVars, pairVars>>

\* The code reads the clock only to stamp lastUpdate and, in the sweep, to
\* compare an age with maxAge.  The clock therefore visits every minute
\* within ClockSlack of a sweep time and skips the minutes in between.
Visited(t) ==
  \/ t % SweepInterval <= ClockSlack
  \/ t % SweepInterval >= SweepInterval - ClockSlack

NextTime(t) ==
  CHOOSE u \in (t + 1)..(t + SweepInterval) :
    Visited(u) /\ \A v \in (t + 1)..(u - 1) : ~Visited(v)

\* Time passes; a due sweep runs first
Tick ==
  /\ now < MaxSweeps * SweepInterval + ClockSlack
  /\ ~SweepDue
  /\ now' = NextTime(now)
  /\ UNCHANGED <<activeJobs, sweepVars, jobVars, scriptVars, fnVars, clientVars, pairVars>>

NextSweep ==
  \/ \E j \in SweepJobIds : JobCreate(j)
  \/ \E j \in SweepJobIds : JobProgress(j)
  \/ \E j \in SweepJobIds, ok \in BOOLEAN : JobFinish(j, ok)
  \/ Sweep
  \/ Tick

SpecSweep == Init /\ [][NextSweep]_vars

----------------------------------------------------------------------------
(* Chapter-based script generation: generateLongScriptFromPreview and      *)
(* generateChapterWithRetry of scriptWriter.js                             *)

MaxRetries == 3     \* scriptWriter.js:521   maxRetries = 3

NoChaptersError == "No chapters found in preview data"
ChapterFailedError == "Failed to generate chapter"

\* scriptWriter.js:526-536: one text-generation call for chapter c
ChapterCall(c, a) == [chapter |-> c, attempt |-> a, outcome |-> "pending"]

\* The last call issued, with its outcome filled in
Answered(cs, outcome) == [cs EXCEPT ![Len(cs)].outcome = outcome]

\* A wait after a failed validation that does not grow with the attempt
ValidationDelayFlat(attempt) == 1000

\* scriptWriter.js:554: the wait after a failed validation, in ms
ValidationDelay(attempt) == 1000 * attempt

\* scriptWriter.js:565: the wait after a failed call, in ms
ErrorDelay(attempt) == 1000 * 2 ^ (attempt - 1)

\* A catch block that keeps what was generated so far
LongScriptCatchSwallows(err) == [rethrow |-> FALSE, error |-> "null"]

\* scriptWriter.js:702-706: the catch block of generateLongScriptFromPreview
LongScriptCatch(err) == [rethrow |-> TRUE, error |-> err]

\* scriptWriter.js:628-662 and 524-536: generateLongScriptFromPreview up to
\* its first await, for a preview of n chapters
LongScriptFromPreview(n) ==
  /\ swPreview' = n
  /\ IF n = 0
     THEN /\ swOut' = [swOut EXCEPT !.error = NoChaptersError]
          /\ swPc' = "done"
          /\ UNCHANGED <<swAttempt, swCalls>>
     ELSE /\ swAttempt' = 1
          /\ swCalls' = Append(swCalls, ChapterCall(1, 1))
          /\ swPc' = "call"
          /\ UNCHANGED swOut
  /\ UNCHANGED <<swChapter, swChunks>>

\* scriptWriter.js:628: generateLongScriptFromPreview is called directly
\* with a preview of n chapters
ScriptStart(n) ==
  /\ swPc = "idle"
  /\ swReq' = [swReq EXCEPT !.entry = "generateLongScriptFromPreview",
                            !.path = "chapters"]
  /\ LongScriptFromPreview(n)
  /\ UNCHANGED <<activeJobs, now, jobVars, sweepVars, fnVars, clientVars, pairVars>>

\* A statistics entry that reports every accepted chapter as valid
ChapterStatAlwaysValid(text) == [chapterNumber |-> text.chapter, isValid |-> TRUE]

\* scriptWriter.js:667-674: the chapterStats entry of an accepted text; the
\* validator is applied again to the same text with the same arguments
ChapterStat(text) == [chapterNumber |-> text.chapter, isValid |-> text.valid]

\* scriptWriter.js:664-698: the chapter's text is pushed, its statistics
\* recorded, and the next chapter requested or the script combined and saved
ChapterAccepted(text) ==
  /\ swChunks' = Append(swChunks, text)
  /\ swOut' = [swOut EXCEPT !.chapterStats = Append(@, ChapterStat(text))]
  /\ IF swChapter + 1 < swPreview
     THEN /\ swChapter' = swChapter + 1
          /\ swAttempt' = 1
          /\ swCalls' = Append(Answered(swCalls, IF text.valid THEN "valid"
                                                 ELSE "invalid"),
                               ChapterCall(swChapter + 2, 1))
          /\ swPc' = "call"
     ELSE /\ swCalls' = Answered(swCalls, IF text.valid THEN "valid"
                                          ELSE "invalid")
          /\ swPc' = "save"
          /\ UNCHANGED <<swChapter, swAttempt>>

\* scriptWriter.js:538-566: the text-generation call of the current attempt
\* returns a text (valid or not) or throws
ChapterResponse(outcome) ==
  /\ swPc = "call"
  /\ LET text == [chapter |-> swChapter + 1, attempt |-> swAttempt,
                  valid |-> outcome = "valid"]
     IN CASE outcome = "valid" -> ChapterAccepted(text)
          [] outcome = "invalid" /\ swAttempt = MaxRetries ->
               ChapterAccepted(text)
          [] outcome = "invalid" /\ swAttempt # MaxRetries ->
               /\ swOut' = [swOut EXCEPT !.waited =
                              Append(@, ValidationDelay(swAttempt))]
               /\ swCalls' = Answered(swCalls, "invalid")
               /\ swPc' = "backoff"
               /\ UNCHANGED <<swChapter, swAttempt, swChunks>>
          [] outcome = "error" /\ swAttempt = MaxRetries ->
               LET c == LongScriptCatch(ChapterFailedError)
               IN /\ swOut' = [swOut EXCEPT !.error = c.error]
                  /\ swCalls' = Answered(swCalls, "error")
                  /\ swPc' = IF c.rethrow THEN "done" ELSE "save"
                  /\ UNCHANGED <<swChapter, swAttempt, swChunks>>
          [] outcome = "error" /\ swAttempt # MaxRetries ->
               /\ swOut' = [swOut EXCEPT !.waited =
                              Append(@, ErrorDelay(swAttempt))]
               /\ swCalls' = Answered(swCalls, "error")
               /\ swPc' = "backoff"
               /\ UNCHANGED <<swChapter, swAttempt, swChunks>>
  /\ UNCHANGED <<swPreview, activeJobs, now, jobVars, sweepVars, swReq, fnVars, clientVars, pairVars>>

\* scriptWriter.js:524-536: the backoff timer fires; the next attempt's call
BackoffDone ==
  /\ swPc = "backoff"
  /\ swAttempt' = swAttempt + 1
  /\ swCalls' = Append(swCalls, ChapterCall(swChapter + 1, swAttempt + 1))
  /\ swPc' = "call"
  /\ UNCHANGED <<swPreview, swChapter, swChunks, swOut, activeJobs, now,
                 jobVars, sweepVars, swReq, fnVars, clientVars, pairVars>>

\* scriptWriter.js:688-700 and 852-879: the combined script is saved and
\* returned, or saving throws
SaveScript(ok) ==
  /\ swPc = "save"
  /\ swOut' = IF ok
              THEN [swOut EXCEPT !.saved = TRUE, !.returned = swChunks]
              ELSE [swOut EXCEPT !.error = FsError]
  /\ swPc' = "done"
  /\ UNCHANGED <<swPreview, swChapter, swAttempt, swChunks, swCalls,
                 activeJobs, now, jobVars, sweepVars, swReq, fnVars, clientVars, pairVars>>

----------------------------------------------------------------------------
(* Script requests: the entry points of scriptWriter.js and their routing  *)
(* to the per-chapter path or to a single text-generation call             *)

DefaultDuration == 3    \* scriptWriter.js:44 and 264   duration = 3
LongDuration == 20      \* scriptWriter.js:59 and 474   duration >= 20

\* The values of options.duration, and of the ESTIMATED_DURATION line of
\* the outline reply (NoDuration: no such key, no such line)
Durations == {NoDuration, 19, 20}

\* A destructuring default: the option's value unless the key is absent
OrDefault(v, d) == IF v = NoDuration THEN d ELSE v

\* scriptWriter.js:360 and 411-416: parsePreview starts from options.duration
\* and overwrites it with the ESTIMATED_DURATION line of the reply, if any
EstimatedDuration(duration, line) == IF line = NoDuration THEN duration ELSE line

\* scriptWriter.js:59 and 474: duration >= 20
IsLong(duration) == duration >= LongDuration

\* scriptWriter.js:462-476: the route generateScriptFromPreview takes; its
\* duration defaults to the preview's estimatedDuration
FromPreviewPath(d, est) ==
  IF IsLong(OrDefault(d, est)) THEN "chapters" ELSE "single"

\* scriptWriter.js:43-63: the route generateChapterBasedScript takes; its
\* duration defaults to 3, and below 20 it hands over to
\* generateScriptFromPreview with the caller's options
ChapterBasedPath(d, est) ==
  IF IsLong(OrDefault(d, DefaultDuration)) THEN "chapters"
  ELSE FromPreviewPath(d, est)

\* scriptWriter.js:478-497: the single text-generation call for the whole
\* script body is issued
SingleCall(n) ==
  /\ swPreview' = n
  /\ swPc' = "body"
  /\ UNCHANGED <<swChapter, swAttempt, swChunks, swCalls, swOut>>

\* scriptWriter.js:27-56 and 262-283: generatePlainTextScript or
\* generateChapterBasedScript is called; the outline is requested
RequestScript(entry, d) ==
  /\ swPc = "idle"
  /\ swReq' = [swReq EXCEPT !.entry = entry, !.duration = d]
  /\ swPc' = "preview"
  /\ UNCHANGED <<swPreview, swChapter, swAttempt, swChunks, swCalls, swOut,
                 activeJobs, now, jobVars, sweepVars, fnVars, clientVars, pairVars>>

\* scriptWriter.js:283-299, 354-443 and 56-63: the outline reply, with n
\* chapters and possibly an ESTIMATED_DURATION line, is parsed and the
\* request routed; or the outline call throws
PreviewResponse(ok, n, line) ==
  /\ swPc = "preview"
  /\ IF ok
     THEN LET est == EstimatedDuration(OrDefault(swReq.duration,
                                                 DefaultDuration), line)
              path == ChapterBasedPath(swReq.duration, est)
          IN /\ swReq' = [swReq EXCEPT !.estimated = est, !.path = path]
             /\ IF path = "chapters"
                THEN LongScriptFromPreview(n)
                ELSE SingleCall(n)
     ELSE /\ n = 0
          /\ line = NoDuration
          /\ swOut' = [swOut EXCEPT !.error = TextGenError]
          /\ swPc' = "done"
          /\ UNCHANGED <<swReq, swPreview, swChapter, swAttempt, swChunks,
                         swCalls>>
  /\ UNCHANGED <<activeJobs, now, jobVars, sweepVars, fnVars, clientVars, pairVars>>

\* scriptWriter.js:461-497: generateScriptFromPreview is called with a
\* preview of n chapters whose estimatedDuration is est
RequestFromPreview(d, n, est) ==
  /\ swPc = "idle"
  /\ LET path == FromPreviewPath(d, est)
     IN /\ swReq' = [entry |-> "generateScriptFromPreview", duration |-> d,
                     estimated |-> est, path |-> path]
        /\ IF path = "chapters"
           THEN LongScriptFromPreview(n)
           ELSE SingleCall(n)
  /\ UNCHANGED <<activeJobs, now, jobVars, sweepVars, fnVars, clientVars, pairVars>>

\* scriptWriter.js:484-517: the single call returns the script body, which
\* is parsed and handed to saveScriptToFile; or the call throws
BodyResponse(ok) ==
  /\ swPc = "body"
  /\ IF ok
     THEN /\ swChunks' = <<[chapter |-> 0, attempt |-> 1, valid |-> TRUE]>>
          /\ swPc' = "save"
          /\ UNCHANGED swOut
     ELSE /\ swOut' = [swOut EXCEPT !.error = TextGenError]
          /\ swPc' = "done"
          /\ UNCHANGED swChunks
  /\ UNCHANGED <<swPreview, swChapter, swAttempt, swCalls, swReq,
                 activeJobs, now, jobVars, sweepVars, fnVars, clientVars, pairVars>>

NextScript ==
  \/ \E n \in 0..MaxChapters : ScriptStart(n)
  \/ \E e \in {"generatePlainTextScript", "generateChapterBasedScript"},
        d \in Durations : RequestScript(e, d)
  \/ \E ok \in BOOLEAN, n \in 0..MaxChapters, line \in Durations :
       PreviewResponse(ok, n, line)
  \/ \E d \in Durations, n \in 0..MaxChapters, est \in Durations :
       RequestFromPreview(d, n, est)
  \/ \E ok \in BOOLEAN : BodyResponse(ok)
  \/ \E o \in {"valid", "invalid", "error"} : ChapterResponse(o)
  \/ BackoffDone
  \/ \E ok \in BOOLEAN : SaveScript(ok)

SpecScript == Init /\ [][NextScript]_vars

----------------------------------------------------------------------------
(* Pure functions: the text splitter and the chunking decision of the      *)
(* audio pipeline, and the chapter validator.  A text is a sequence of     *)
(* characters.                                                             *)

Chars == {"a", " ", "."}
Texts == UNION {[1..k -> Chars] : k \in 0..MaxLen}

IsTerminator(c) == c \in {".", "!", "?"}   \* the class [\.!?]
IsSpace(c) == c = " "                      \* the class \s

\* String.prototype.trim
RECURSIVE TrimStart(_)
TrimStart(s) ==
  IF s # << >> /\ IsSpace(Head(s)) THEN TrimStart(Tail(s)) ELSE s

RECURSIVE TrimEnd(_)
TrimEnd(s) ==
  IF s # << >> /\ IsSpace(s[Len(s)])
  THEN TrimEnd(SubSeq(s, 1, Len(s) - 1)) ELSE s

Trim(s) == TrimEnd(TrimStart(s))

\* part_001:446: text.match(/[^\.!?]+[\.!?]+/g), scanning from position i.
\* cur is the match under construction and inTerm tells whether it has
\* reached its terminators.  Terminators with no text before them start no
\* match, and text after the last terminator completes none.
RECURSIVE MatchSentences(_, _, _, _, _)
MatchSentences(text, i, cur, inTerm, acc) ==
  IF i > Len(text)
  THEN IF inTerm THEN Append(acc, cur) ELSE acc
  ELSE LET c == text[i]
       IN IF IsTerminator(c)
          THEN IF cur = << >>
               THEN MatchSentences(text, i + 1, << >>, FALSE, acc)
               ELSE MatchSentences(text, i + 1, Append(cur, c), TRUE, acc)
          ELSE IF inTerm
               THEN MatchSentences(text, i + 1, <<c>>, FALSE,
                                   Append(acc, cur))
               ELSE MatchSentences(text, i + 1, Append(cur, c), FALSE, acc)

\* part_001:446: ... || [text]
Sentences(text) ==
  LET m == MatchSentences(text, 1, << >>, FALSE, << >>)
  IN IF m = << >> THEN <<text>> ELSE m

\* part_001:455: currentChunk.split(/\s+/)
RECURSIVE SplitWords(_, _, _, _)
SplitWords(s, i, cur, acc) ==
  IF i > Len(s)
  THEN Append(acc, cur)
  ELSE IF IsSpace(s[i])
       THEN IF i > 1 /\ IsSpace(s[i - 1])
            THEN SplitWords(s, i + 1, cur, acc)
            ELSE SplitWords(s, i + 1, << >>, Append(acc, cur))
       ELSE SplitWords(s, i + 1, Append(cur, s[i]), acc)

\* Array.prototype.slice(-n) for n > 0
LastN(ws, n) == SubSeq(ws, IF Len(ws) > n THEN Len(ws) - n + 1 ELSE 1, Len(ws))

\* Array.prototype.join(' ')
RECURSIVE Join(_)
Join(ws) ==
  IF ws = << >> THEN << >>
  ELSE IF Len(ws) = 1 THEN ws[1]
  ELSE ws[1] \o <<" ">> \o Join(Tail(ws))

OverlapSize == 200    \* part_001:445   overlapSize = 200

\* part_001:455-457: the words seeded into the next chunk
OverlapWords(currentChunk) ==
  LastN(SplitWords(currentChunk, 1, << >>, << >>), OverlapSize \div 10)

\* part_001:450-461: the loop over the sentences from index k on
RECURSIVE SplitLoop(_, _, _, _, _)
SplitLoop(sentences, k, chunkSize, currentChunk, chunks) ==
  IF k > Len(sentences)
  THEN [currentChunk |-> currentChunk, chunks |-> chunks]
  ELSE LET sentence == sentences[k]
       IN IF Len(currentChunk) + Len(sentence) > chunkSize
             /\ Len(currentChunk) > 0
          THEN SplitLoop(sentences, k + 1, chunkSize,
                         Join(OverlapWords(currentChunk)) \o <<" ">>
                           \o sentence,
                         Append(chunks, Trim(currentChunk)))
          ELSE SplitLoop(sentences, k + 1, chunkSize,
                         currentChunk \o sentence, chunks)

\* part_001:445-468: splitTextIntoChunks
SplitTextIntoChunks(text, chunkSize) ==
  LET r == SplitLoop(Sentences(text), 1, chunkSize, << >>, << >>)
  IN IF Trim(r.currentChunk) # << >>
     THEN Append(r.chunks, Trim(r.currentChunk))
     ELSE r.chunks

\* A chunking test that also splits a script of exactly chunkSize
NeedsChunkingInclusive(length, chunkSize) == length >= chunkSize

\* part_001:125 and 227: scriptContent.length > chunkSize
NeedsChunking(length, chunkSize) == length > chunkSize

\* part_001:89-141 and 182-256: what generateAudioFromScript (plain) and
\* generateAudioFromScriptWithProgress do with a script: reject a blank
\* one, hand a long one to generateLongAudio, which splits it (part_001:322),
\* and send any other to the synthesis service in one call
AudioFromScript(variant, text, chunkSize) ==
  IF Trim(text) = << >>
  THEN [path |-> "error", split |-> FALSE, chunks |-> << >>]
  ELSE IF NeedsChunking(Len(text), chunkSize)
       THEN [path |-> "multi", split |-> TRUE,
             chunks |-> SplitTextIntoChunks(text, chunkSize)]
       ELSE [path |-> "single", split |-> FALSE, chunks |-> <<text>>]

\* A word-count floor that rejects a text of exactly the minimum
TooFewWordsInclusive(wordCount, minWordCount) == wordCount <= minWordCount

\* scriptWriter.js:577: wordCount < minWordCount
TooFewWords(wordCount, minWordCount) == wordCount < minWordCount

\* scriptWriter.js:584: wordCount > maxWordCount
TooManyWords(wordCount, maxWordCount) == wordCount > maxWordCount

\* scriptWriter.js:570-626: validateChapterContent.  The content is given
\* by what the validator measures of it: wordCount is
\* content.split(/\s+/).length, trimmedLength is content.trim().length,
\* bracket and todo tell whether it includes '[' or ']' and 'TODO',
\* titleWords is chapter.title.toLowerCase().split(/\s+/).length and
\* keywordMatches counts the title words longer than 3 characters that the
\* lower-cased content includes.  expectedTenths is expectedDuration in
\* tenths of a minute, so expectedWordCount = expectedDuration * 200 is
\* expectedTenths * 20, its half expectedTenths * 10 and its double
\* expectedTenths * 40.
ValidateChapterContent(c, expectedTenths) ==
  LET minWordCount == expectedTenths * 10
      maxWordCount == expectedTenths * 40
  IN IF TooFewWords(c.wordCount, minWordCount)
     THEN [isValid |-> FALSE, reason |-> "Too short"]
     ELSE IF TooManyWords(c.wordCount, maxWordCount)
     THEN [isValid |-> FALSE, reason |-> "Too long"]
     ELSE IF c.trimmedLength < 100
     THEN [isValid |-> FALSE, reason |-> "Content too short"]
     ELSE IF c.bracket \/ c.todo
     THEN [isValid |-> FALSE, reason |-> "Content contains placeholder text"]
     ELSE IF c.keywordMatches = 0 /\ c.titleWords > 1
     THEN [isValid |-> FALSE, reason |-> "Content does not seem related"]
     ELSE [isValid |-> TRUE, reason |-> "none"]

\* Word counts around the two limits for an expected duration
WordCounts(expectedTenths) ==
  {expectedTenths * 10 + d : d \in {-1, 0, 1}}
    \cup {expectedTenths * 40 + d : d \in {-1, 0, 1}}

\* splitTextIntoChunks is applied to a text
CallSplit(text, chunkSize) ==
  /\ fn.name = "none"
  /\ fn' = [name |-> "splitTextIntoChunks", text |-> text,
            chunkSize |-> chunkSize,
            result |-> SplitTextIntoChunks(text, chunkSize)]
  /\ UNCHANGED <<activeJobs, now, jobVars, sweepVars, scriptVars, clientVars, pairVars>>

\* One of the two script-to-audio functions is applied to a script
CallAudioFromScript(variant, text, chunkSize) ==
  /\ fn.name = "none"
  /\ fn' = [name |-> "generateAudioFromScript", variant |-> variant,
            text |-> text, chunkSize |-> chunkSize,
            result |-> AudioFromScript(variant, text, chunkSize)]
  /\ UNCHANGED <<activeJobs, now, jobVars, sweepVars, scriptVars, clientVars, pairVars>>

\* validateChapterContent is applied to a chapter text.  A text of w words
\* in the sense of split(/\s+/) has at least w - 2 words of one character or
\* more and a space between any two of them.
CallValidate(c, expectedTenths) ==
  /\ fn.name = "none"
  /\ c.trimmedLength >= 2 * (c.wordCount - 2) - 1
  /\ c.keywordMatches <= c.titleWords
  /\ fn' = [name |-> "validateChapterContent", content |-> c,
            expectedTenths |-> expectedTenths,
            result |-> ValidateChapterContent(c, expectedTenths)]
  /\ UNCHANGED <<activeJobs, now, jobVars, sweepVars, scriptVars, clientVars, pairVars>>

\* validation.js:30  the accepted range of duration, in minutes
MinDuration == 1
MaxDuration == 180
ChaptersLow == 3      \* scriptWriter.js:313  Math.max(3, ...)
ChaptersHigh == 8     \* scriptWriter.js:313  Math.min(8, ...)

FloorDiv(a, b) == a \div b

\* Math.ceil(a / b) for b > 0
CeilDiv(a, b) == -((-a) \div b)

\* scriptWriter.js:313
\* Math.max(3, Math.min(8, Math.ceil(duration / 2)))
NumChapters(duration) ==
  LET ceil == CeilDiv(duration, 2)
      min == IF ChaptersHigh < ceil THEN ChaptersHigh ELSE ceil
  IN  IF ChaptersLow > min THEN ChaptersLow ELSE min

CallNumChapters(duration) ==
  /\ fn.name = "none"
  /\ fn' = [name |-> "numChapters", duration |-> duration,
            result |-> NumChapters(duration)]
  /\ UNCHANGED <<activeJobs, now, jobVars, sweepVars, scriptVars, clientVars, pairVars>>

MaxOver == 2          \* most characters of a chapter beyond the excerpt size
ExcerptSize == 500    \* scriptWriter.js:661  substring(0, 500)

\* the text of accepted chapter c, len characters long; a character is
\* known by its chapter and position
ChapterText(c, len) == [k \in 1..len |-> 1000 * c + k]

\* String.prototype.substring(from, to) for 0 <= from <= to
Substring(s, from, to) ==
  SubSeq(s, from + 1, IF to < Len(s) THEN to ELSE Len(s))

\* scriptWriter.js:661
\* chunks.length > 0 ? chunks[chunks.length - 1].substring(0, 500) : ''
PreviousContent(chunks) ==
  IF Len(chunks) > 0
  THEN Substring(chunks[Len(chunks)], 0, ExcerptSize)
  ELSE << >>

\* scriptWriter.js:792-795  the excerpt enters the prompt when it is truthy
ContinuityContext(previousContent) ==
  IF previousContent # << >>
  THEN [present |-> TRUE, excerpt |-> previousContent]
  ELSE [present |-> FALSE, excerpt |-> << >>]

\* scriptWriter.js:647-664  the prompt of chapter Len(chunks) + 1
CallChapterPrompt(chunks) ==
  /\ fn.name = "none"
  /\ fn' = [name |-> "buildChapterPrompt", chunks |-> chunks,
            chapterNumber |-> Len(chunks) + 1,
            result |-> ContinuityContext(PreviousContent(chunks))]
  /\ UNCHANGED <<activeJobs, now, jobVars, sweepVars, scriptVars, clientVars, pairVars>>

MaxLines == 4         \* most lines of an outline given to the parser

\* The outline parser sees each trimmed line as one of: empty, 'TITLE:...',
\* a chapter tag with a title (/^CHAPTER (\d+): (.+)$/), a chapter tag
\* without one (only /^CHAPTER \d+:/ matches), a metadata tag
\* (ESTIMATED_DURATION: or WORD_COUNT_TARGET:), or other text.
LineKinds == {"blank", "title", "chapter", "badchapter", "meta", "text"}
Outlines == UNION {[1..n -> LineKinds] : n \in 0..MaxLines}

\* scriptWriter.js:359  let currentChapter = null
NoChapter == [tag |-> 0, description |-> << >>]

\* scriptWriter.js:375  trimmedLine.match(/^CHAPTER \d+:/)
IsChapterTag(kind) == kind \in {"chapter", "badchapter"}

\* scriptWriter.js:390-407  the look-ahead loop: the description lines
\* gathered from line j on, and the line at which the loop stops
RECURSIVE LookAhead(_, _, _)
LookAhead(lines, j, description) ==
  IF j > Len(lines)
  THEN [description |-> description, j |-> j]
  ELSE IF lines[j] = "blank"
       THEN LookAhead(lines, j + 1, description)
       ELSE IF IsChapterTag(lines[j]) \/ lines[j] = "meta"
            THEN [description |-> description, j |-> j]
            ELSE LookAhead(lines, j + 1, Append(description, j))

\* scriptWriter.js:367-428  the loop over the lines, from line i on; a
\* chapter is known by the line of its tag, its description by the lines
\* joined into it
RECURSIVE ParseLoop(_, _, _, _)
ParseLoop(lines, i, chapters, currentChapter) ==
  IF i > Len(lines)
  THEN IF currentChapter # NoChapter
       THEN Append(chapters, currentChapter)
       ELSE chapters
  ELSE IF IsChapterTag(lines[i])
       THEN LET saved == IF currentChapter # NoChapter
                         THEN Append(chapters, currentChapter)
                         ELSE chapters
            IN  IF lines[i] = "chapter"
                THEN LET ahead == LookAhead(lines, i + 1, << >>)
                     IN  ParseLoop(lines, ahead.j, saved,
                                   [tag |-> i,
                                    description |-> ahead.description])
                ELSE ParseLoop(lines, i + 1, saved, currentChapter)
       ELSE ParseLoop(lines, i + 1, chapters, currentChapter)

\* scriptWriter.js:354-444  the chapters of the parsed outline
ParsePreview(lines) == ParseLoop(lines, 1, << >>, NoChapter)

CallParsePreview(lines) ==
  /\ fn.name = "none"
  /\ fn' = [name |-> "parsePreview", lines |-> lines,
            result |-> ParsePreview(lines)]
  /\ UNCHANGED <<activeJobs, now, jobVars, sweepVars, scriptVars, clientVars, pairVars>>

MaxParts == 3         \* most chunks of a run whose files are followed

\* A file name is the sequence of its parts between dots; the part before
\* a dot may carry the suffix _chunk_<i> (chunk, -1 for none).  All paths
\* lie in the same output directory.
Part(text) == [text |-> text, chunk |-> -1]
Format == "mp3"       \* part_001:188  format = 'mp3'
Filenames ==
  {<< >>, <<Part("talk")>>, <<Part("talk"), Part("mp3")>>,
   <<Part("my"), Part("talk")>>, <<Part("talk"), Part("wav")>>}

\* part_001:207-215  the output file name (no filename option: a name made
\* of the script's name and the time)
OutputFilename(filename) ==
  IF filename # << >>
  THEN IF Len(filename) > 1 THEN filename ELSE filename \o <<Part(Format)>>
  ELSE <<Part("script_audio_now"), Part(Format)>>

\* part_001:342  outputPath.replace(`.${format}`, `_chunk_${i}.${format}`):
\* a string pattern replaces its first occurrence, and nothing when it
\* does not occur
TempPath(outputPath, i) ==
  LET hits == {k \in 2..Len(outputPath) : outputPath[k].text = Format}
  IN  IF hits = {}
      THEN outputPath
      ELSE LET first == CHOOSE k \in hits : \A h \in hits : k <= h
           IN  [outputPath EXCEPT ![first - 1].chunk = i]

\* the files on disk: path -> content, a content being the sequence of the
\* chunks whose audio it holds
WriteFile(fs, path, content) ==
  [q \in DOMAIN fs \cup {path} |-> IF q = path THEN content ELSE fs[q]]
RemoveFile(fs, path) == [q \in DOMAIN fs \ {path} |-> fs[q]]

\* part_001:340-374  chunk i is synthesized and written to its temp path
RECURSIVE WriteChunks(_, _, _, _)
WriteChunks(fs, outputPath, i, n) ==
  IF i >= n
  THEN fs
  ELSE WriteChunks(WriteFile(fs, TempPath(outputPath, i), <<i>>),
                   outputPath, i + 1, n)

\* part_001:470-489  combineAudioFiles: the output is opened for writing
\* (and truncated), then each file is read and piped into it in turn.
\* Reading the output path itself races with the truncation: the read
\* sees the content from before it (raced) or nothing.
RECURSIVE CombineLoop(_, _, _, _, _)
CombineLoop(fs, audioFiles, k, outputPath, stale) ==
  IF k > Len(audioFiles)
  THEN fs
  ELSE LET data == IF audioFiles[k] = outputPath THEN stale
                   ELSE fs[audioFiles[k]]
       IN  CombineLoop(WriteFile(fs, outputPath, fs[outputPath] \o data),
                       audioFiles, k + 1, outputPath, stale)

CombineAudioFiles(fs, audioFiles, outputPath, raced) ==
  LET before == IF outputPath \in DOMAIN fs THEN fs[outputPath] ELSE << >>
  IN  CombineLoop(WriteFile(fs, outputPath, << >>), audioFiles, 1,
                  outputPath, IF raced THEN before ELSE << >>)

\* part_001:401-408  fs.remove of every temp file
RECURSIVE RemoveTempFiles(_, _, _)
RemoveTempFiles(fs, audioFiles, k) ==
  IF k > Len(audioFiles)
  THEN fs
  ELSE RemoveTempFiles(RemoveFile(fs, audioFiles[k]), audioFiles, k + 1)

\* part_001:323-426  the files of a successful generateLongAudio run with
\* n chunks, starting from an empty output directory
LongAudioFiles(filename, n, raced) ==
  LET outputPath == OutputFilename(filename)
      temps == [k \in 1..n |-> TempPath(outputPath, k - 1)]
      written == WriteChunks(<< >>, outputPath, 0, n)
      combined == CombineAudioFiles(written, temps, outputPath,
                                    raced)
  IN  [outputPath |-> outputPath, tempAudioFiles |-> temps,
       fs |-> RemoveTempFiles(combined, temps, 1)]

CallLongAudio(filename, n, raced) ==
  /\ fn.name = "none"
  /\ fn' = [name |-> "generateLongAudio", filename |-> filename, n |-> n,
            result |-> LongAudioFiles(filename, n, raced)]
  /\ UNCHANGED <<activeJobs, now, jobVars, sweepVars, scriptVars, clientVars, pairVars>>

\* A function's result depends on its arguments only, so each behaviour
\* applies one function once
NextFn ==
  \/ \E text \in Texts, chunkSize \in 1..MaxChunkSize :
       CallSplit(text, chunkSize)
  \/ \E variant \in {"plain", "progress"}, text \in Texts,
        chunkSize \in 1..MaxChunkSize :
       CallAudioFromScript(variant, text, chunkSize)
  \/ \E e \in 1..MaxExpected :
       \E c \in [wordCount : WordCounts(e), trimmedLength : {99, 100},
                 bracket : BOOLEAN, todo : BOOLEAN, titleWords : {1, 2},
                 keywordMatches : {0, 1}] :
         CallValidate(c, e)
  \/ \E duration \in MinDuration..MaxDuration : CallNumChapters(duration)
  \/ \E lines \in Outlines : CallParsePreview(lines)
  \/ \E filename \in Filenames, n \in 2..MaxParts, raced \in BOOLEAN :
       CallLongAudio(filename, n, raced)
  \/ \E n \in 0..2, len \in {1} \cup ((ExcerptSize - 1)..(ExcerptSize + MaxOver)) :
       CallChapterPrompt([c \in 1..n |-> ChapterText(c, len)])

SpecFn == Init /\ [][NextFn]_vars

----------------------------------------------------------------------------
(* The client's polling fallback: pollJobStatus of the frontend's api      *)
(* service (src/unnamed/part_002) against GET /api/job-status/:jobId.      *)
(* The client clock counts firings of the 2-second interval.               *)

MaxInFlight == 1    \* most poll requests awaiting their response at once

PollEvery == 2000          \* part_002:475  setInterval(..., 2000)
PollTimeout == 1800000     \* part_002:483  30 * 60 * 1000
TimeoutTicks == PollTimeout \div PollEvery
NotFoundError == "Job no longer exists"     \* part_002:469
TimeoutError == "Job polling timeout"       \* part_002:482
JobFailedError == "Job failed"              \* part_002:461
SomeJobError == "synthesis failed"          \* the message of a failed job

\* a status request that has no answer yet
Sent == [code |-> 0, success |-> FALSE, status |-> "none", result |-> Null,
         error |-> "null", isComplete |-> FALSE]

RemoveAt(s, i) == [k \in 1..(Len(s) - 1) |-> IF k < i THEN s[k] ELSE s[k + 1]]

\* server.js:265-289  the answer of the job-status endpoint
JobStatus(jobs, j) ==
  IF j \notin DOMAIN jobs
  THEN [code |-> 404, success |-> FALSE, status |-> "none", result |-> Null,
        error |-> "Job not found", isComplete |-> FALSE]
  ELSE [code |-> 200, success |-> TRUE, status |-> jobs[j].status,
        result |-> jobs[j].result, error |-> jobs[j].error,
        isComplete |-> jobs[j].status \in Terminal]

\* a promise settles once: later resolve and reject calls change nothing
Settle(p, state, value) ==
  IF p.outcome.state = "pending"
  THEN [p EXCEPT !.outcome = [state |-> state, value |-> value]]
  ELSE p

ClearInterval(p) == [p EXCEPT !.interval = FALSE]

PollStopsOnResult(resp) == resp.result # Null

\* part_002:451  if (job.isComplete)
PollStops(resp) == resp.isComplete

\* part_002:416-474  the interval callback after await checkJobStatus:
\* axios rejects every answer that is not 2xx, the interceptor rethrows
\* it (part_002:403-410) and the catch block keeps polling
OnPollResponse(p, resp) ==
  IF resp.code # 200
  THEN p
  ELSE IF resp.success
       THEN IF PollStops(resp)
            THEN IF resp.result # Null
                 THEN Settle(ClearInterval(p), "resolved", "result")
                 ELSE Settle(ClearInterval(p), "rejected",
                             IF resp.error # "null" THEN resp.error
                             ELSE JobFailedError)
            ELSE p
       ELSE Settle(ClearInterval(p), "rejected", NotFoundError)

\* part_002:413-484  pollJobStatus: both timers are armed
StartPolling ==
  /\ ~poll.started
  /\ poll' = [poll EXCEPT !.started = TRUE, !.interval = TRUE,
                           !.timer = TRUE]
  /\ UNCHANGED <<activeJobs, now, jobVars, sweepVars, scriptVars, fnVars,
                 pollJob, pairVars>>

\* part_002:416-419  the interval fires and a status request is sent
IntervalFire ==
  /\ poll.interval
  /\ poll.clock < TimeoutTicks
  /\ Len(poll.inflight) < MaxInFlight
  /\ poll' = [poll EXCEPT !.clock = @ + 1, !.inflight = Append(@, Sent)]
  /\ UNCHANGED <<activeJobs, now, jobVars, sweepVars, scriptVars, fnVars,
                 pollJob, pairVars>>

\* time passes on the client while only the 30-minute timer is armed
ClientWait ==
  /\ poll.timer
  /\ ~poll.interval
  /\ poll.clock < TimeoutTicks
  /\ poll' = [poll EXCEPT !.clock = @ + 1]
  /\ UNCHANGED <<activeJobs, now, jobVars, sweepVars, scriptVars, fnVars,
                 pollJob, pairVars>>

\* server.js:265-289  the server answers one status request
StatusAnswer(i) ==
  /\ i \in 1..Len(poll.inflight)
  /\ poll.inflight[i] = Sent
  /\ poll' = [poll EXCEPT !.inflight[i] = JobStatus(pollJob, JobId)]
  /\ UNCHANGED <<activeJobs, now, jobVars, sweepVars, scriptVars, fnVars,
                 pollJob, pairVars>>

\* part_002:420-474  the answer arrives and the callback resumes
PollResponse(i) ==
  /\ i \in 1..Len(poll.inflight)
  /\ poll.inflight[i] # Sent
  /\ poll' = [OnPollResponse(poll, poll.inflight[i]) EXCEPT
                 !.inflight = RemoveAt(poll.inflight, i),
                 !.last = poll.inflight[i]]
  /\ UNCHANGED <<activeJobs, now, jobVars, sweepVars, scriptVars, fnVars,
                 pollJob, pairVars>>

\* part_002:478-483  the 30-minute timer fires
PollTimeoutFire ==
  /\ poll.timer
  /\ poll.clock = TimeoutTicks
  /\ poll' = Settle([ClearInterval(poll) EXCEPT !.timer = FALSE],
                     "rejected", TimeoutError)
  /\ UNCHANGED <<activeJobs, now, jobVars, sweepVars, scriptVars, fnVars,
                 pollJob, pairVars>>

\* server.js:138-150  the job's task reports a status through the
\* progress callback (a forwarded 'complete' arrives before the result)
PolledJobReportsComplete ==
  /\ JobId \in DOMAIN pollJob
  /\ pollJob[JobId].status = "processing"
  /\ pollJob' = [pollJob EXCEPT ![JobId].status = "complete"]
  /\ UNCHANGED <<activeJobs, now, jobVars, sweepVars, scriptVars, fnVars,
                 poll, pairVars>>

\* server.js:181-189  the job's task stores its result
PolledJobCompletes ==
  /\ JobId \in DOMAIN pollJob
  /\ pollJob[JobId].result = Null
  /\ pollJob[JobId].status \in {"processing", "complete"}
  /\ pollJob' = [pollJob EXCEPT ![JobId].status = "complete",
                                 ![JobId].result = [isNull |-> FALSE,
                                                    fields |-> {"audioFile"}]]
  /\ UNCHANGED <<activeJobs, now, jobVars, sweepVars, scriptVars, fnVars,
                 poll, pairVars>>

\* server.js:199-206  the job's task fails
PolledJobFails ==
  /\ JobId \in DOMAIN pollJob
  /\ pollJob[JobId].status = "processing"
  /\ pollJob' = [pollJob EXCEPT ![JobId].status = "error",
                                 ![JobId].error = SomeJobError]
  /\ UNCHANGED <<activeJobs, now, jobVars, sweepVars, scriptVars, fnVars,
                 poll, pairVars>>

\* server.js:292-303  the sweep evicts the job, or the server restarts
\* with an empty map
PolledJobForgotten ==
  /\ JobId \in DOMAIN pollJob
  /\ pollJob' = << >>
  /\ UNCHANGED <<activeJobs, now, jobVars, sweepVars, scriptVars, fnVars,
                 poll, pairVars>>

ClientStep ==
  \/ StartPolling
  \/ IntervalFire
  \/ ClientWait
  \/ \E i \in 1..MaxInFlight : PollResponse(i)
  \/ PollTimeoutFire

NextPoll ==
  \/ ClientStep
  \/ \E i \in 1..MaxInFlight : StatusAnswer(i)
  \/ PolledJobReportsComplete
  \/ PolledJobCompletes
  \/ PolledJobFails
  \/ PolledJobForgotten

SpecPoll == Init /\ [][NextPoll]_vars

\* the browser runs a timer callback once it is due and delivers an
\* answer that has arrived
SpecPollLive == SpecPoll /\ WF_vars(ClientStep)
                        /\ WF_vars(\E i \in 1..MaxInFlight : StatusAnswer(i))

----------------------------------------------------------------------------
(* Two concurrent streaming requests to POST /api/generate-audio: the job  *)
(* ids they register and the paths they use.  Date.now() is the clock ms.  *)
(* An id or a path is a triple of a prefix and the values it is built     *)
(* from.                                                                   *)

MaxMs == 2          \* the clock stops at this millisecond

Requests == {1, 2}
NoPath == <<"none", 0, 0>>

\* server.js:109  jobId || `audio_${Date.now()}_${random}`: a supplied
\* id is used as it is; two generated random parts are taken to differ
CurrentJobId(r, supplied) ==
  IF supplied THEN <<"client", 0, 0>> ELSE <<"audio", ms, r>>

\* server.js:91-166  the handler up to its first await: the job record is
\* created and stored under the id, replacing what the map held there
PairStart(r, source, supplied) ==
  /\ pair[r].pc = "idle"
  /\ LET id == CurrentJobId(r, supplied)
     IN  /\ jobRef' = [j \in DOMAIN jobRef \cup {id} |->
                         IF j = id THEN r ELSE jobRef[j]]
         /\ pair' = [pair EXCEPT ![r].pc = IF source = "file" THEN "readFile"
                                           ELSE "ensureDir",
                                 ![r].source = source,
                                 ![r].jobId = id]
  /\ UNCHANGED <<activeJobs, now, jobVars, sweepVars, scriptVars, fnVars,
                 clientVars, ms, disk>>

\* server.js:168-169  tempFile = temp_${Date.now()}.txt is written
PairTempFile(r) ==
  /\ pair[r].pc = "ensureDir"
  /\ LET tempFile == <<"temp", ms, 0>>
     IN  /\ pair' = [pair EXCEPT ![r].pc = "readFile",
                                 ![r].tempFile = tempFile]
         /\ disk' = [q \in DOMAIN disk \cup {tempFile} |->
                       IF q = tempFile THEN r ELSE disk[q]]
  /\ UNCHANGED <<activeJobs, now, jobVars, sweepVars, scriptVars, fnVars,
                 clientVars, ms, jobRef>>

\* part_001:198-215  the script is read and the output path is named
\* ${scriptName}_audio_${Date.now()}.${format}; the script named by
\* 'file' is the same for both requests
PairOutputPath(r) ==
  /\ pair[r].pc = "readFile"
  /\ pair' = [pair EXCEPT
                ![r].pc = "synthesize",
                ![r].outputPath =
                   <<"audio_out",
                     IF pair[r].source = "file" THEN -1
                     ELSE pair[r].tempFile[2],
                     ms>>]
  /\ UNCHANGED <<activeJobs, now, jobVars, sweepVars, scriptVars, fnVars,
                 clientVars, ms, jobRef, disk>>

\* part_001:340-374  the first chunk is written to its temp path, the
\* output path with _chunk_0 before the extension
PairWriteChunk(r) ==
  /\ pair[r].pc = "synthesize"
  /\ LET tempPath == <<"audio_chunk_0", pair[r].outputPath[2],
                       pair[r].outputPath[3]>>
     IN  /\ pair' = [pair EXCEPT ![r].pc = "combine",
                                 ![r].tempPath = tempPath]
         /\ disk' = [q \in DOMAIN disk \cup {tempPath} |->
                       IF q = tempPath THEN r ELSE disk[q]]
  /\ UNCHANGED <<activeJobs, now, jobVars, sweepVars, scriptVars, fnVars,
                 clientVars, ms, jobRef>>

\* part_001:387-408  the output file is written and the temp audio file
\* is removed
PairCombine(r) ==
  /\ pair[r].pc = "combine"
  /\ pair' = [pair EXCEPT ![r].pc = "removeTemp"]
  /\ disk' = [q \in (DOMAIN disk \cup {pair[r].outputPath})
                       \ {pair[r].tempPath} |->
                IF q = pair[r].outputPath THEN r ELSE disk[q]]
  /\ UNCHANGED <<activeJobs, now, jobVars, sweepVars, scriptVars, fnVars,
                 clientVars, ms, jobRef>>

\* server.js:178-198  the temp text file is removed and the job completes
PairFinish(r) ==
  /\ pair[r].pc = "removeTemp"
  /\ pair' = [pair EXCEPT ![r].pc = "done"]
  /\ disk' = IF pair[r].source = "text"
             THEN [q \in DOMAIN disk \ {pair[r].tempFile} |-> disk[q]]
             ELSE disk
  /\ UNCHANGED <<activeJobs, now, jobVars, sweepVars, scriptVars, fnVars,
                 clientVars, ms, jobRef>>

\* a millisecond passes
PairTick ==
  /\ ms < MaxMs
  /\ ms' = ms + 1
  /\ UNCHANGED <<activeJobs, now, jobVars, sweepVars, scriptVars, fnVars,
                 clientVars, pair, jobRef, disk>>

NextPair ==
  \/ \E r \in Requests, source \in {"text", "file"}, supplied \in BOOLEAN :
       PairStart(r, source, supplied)
  \/ \E r \in Requests : PairTempFile(r)
  \/ \E r \in Requests : PairOutputPath(r)
  \/ \E r \in Requests : PairWriteChunk(r)
  \/ \E r \in Requests : PairCombine(r)
  \/ \E r \in Requests : PairFinish(r)
  \/ PairTick

SpecPair == Init /\ [][NextPair]_vars

----------------------------------------------------------------------------
(* Claims about the streaming request's task *)

Job == activeJobs[JobId]
Started == JobId \in DOMAIN activeJobs

\* C1: whenever a job-status poll can be served, a job record has a non-null
\* result if and only if its status is 'complete'.
C1_ResultIffComplete ==
  \A j \in DOMAIN activeJobs :
    (~activeJobs[j].result.isNull) <=> (activeJobs[j].status = "complete")

\* The text-input audio path is awaiting the removal of its temporary text
\* file after the audio pipeline run returned
C1_Witness ==
  /\ pc = "a_rmtemp"
  /\ req.source = "text"
  /\ ~audioResult.isNull

\* C2: once a job's status is 'complete' or 'error', no later update of the
\* owning task changes its status, progress, result or error.
C2_TerminalIsFinal ==
  \A k \in 1..(Len(jobLog) - 1) :
    jobLog[k].status \in Terminal =>
      /\ jobLog[k + 1].status = jobLog[k].status
      /\ jobLog[k + 1].progress = jobLog[k].progress
      /\ jobLog[k + 1].result = jobLog[k].result
      /\ jobLog[k + 1].error = jobLog[k].error

\* C3: over the whole sequence of updates applied to one job record, the
\* stored progress never decreases while the status is not 'error'.
C3_ProgressMonotone ==
  \A k \in 1..(Len(jobLog) - 1) :
    jobLog[k + 1].status # "error" =>
      jobLog[k + 1].progress >= jobLog[k].progress

\* C4: a client disconnect changes nothing of the background work (the job
\* record, the task's position, its external calls, its files), and every
\* started job eventually reaches status 'complete' or 'error'.
C4_DisconnectDoesNotCancel ==
  /\ [][(connected /\ ~connected') =>
          UNCHANGED <<activeJobs, pc, req, calls, jobLog, files, chunkIdx,
                      tempAudioFiles, raised, thrown, audioResult,
                      cleanupIdx, streamEnded>>]_vars
  /\ [](pc # "idle" => <>(pc = "done" /\ Job.status \in Terminal))

\* A job completed after its client had disconnected in the middle of the
\* run: the client received the first events but not the terminal one
C4_Witness ==
  /\ pc = "done"
  /\ ~connected
  /\ Job.status = "complete"
  /\ Len(stream) > 0
  /\ stream[Len(stream)].type \notin Terminal
  /\ Len(calls) > 1

\* C7: every event the client receives carries the jobId, every 'complete'
\* event carries the final result payload and every 'error' event an error
\* string.
C7_EventsCarryPayload ==
  \A k \in 1..Len(stream) :
    /\ stream[k].jobId = JobId
    /\ stream[k].type = "complete" => ~stream[k].data.isNull
    /\ stream[k].type = "error" => stream[k].error # "null"

\* C8: when the synthesis call or the write of chunk k fails in a
\* multi-chunk run, the temp files of chunks 0..k-1 have been removed and no
\* output file exists once the run has returned control to its caller.
C8_FailureRemovesTempFiles ==
  (pc = "done" /\ req.long /\ thrown # "null"
     /\ Len(tempAudioFiles) = chunkIdx) =>
    /\ \A i \in 0..(chunkIdx - 1) : ChunkFile(i) \notin files
    /\ OutputFile \notin files

\* C9: when a chunk's synthesis fails in a multi-chunk run, the error the run
\* propagates, the job's error field and the 'error' event all carry the
\* synthesis error the speech-synthesis wrapper raised.
C9_PropagatesSynthesisError ==
  (pc = "done" /\ req.long /\ raised \in SynthesisErrors) =>
    /\ thrown = raised
    /\ Job.error = raised
    /\ connected => stream[Len(stream)].error = raised

\* The synthesis calls among the external calls, in the order issued
IsTts(call) == call.svc = "tts"
TtsCalls == SelectSeq(calls, IsTts)

\* C16: in a multi-chunk run the synthesis calls are issued in chunk index
\* order 0, 1, ..., each chunk at most once; call i+1 is issued only after
\* chunk i's bytes are written, so at most one call is in flight; after a
\* chunk fails no further synthesis call is issued.
C16_ChunksInOrderOneAtATime ==
  req.long =>
    /\ Len(TtsCalls) <= req.n
    /\ \A k \in 1..Len(TtsCalls) : TtsCalls[k].idx = k - 1
    /\ Len(TtsCalls) - Len(tempAudioFiles) \in {0, 1}
    /\ \A k \in 1..Len(tempAudioFiles) :
         tempAudioFiles[k] = ChunkFile(k - 1) /\ k <= Len(TtsCalls)
    /\ (pc = "done" /\ thrown # "null") => Len(TtsCalls) = chunkIdx + 1

\* The synthesis call of a chunk after the second failed with later chunks
\* still to come
C16_Witness ==
  /\ req.long
  /\ pc = "done"
  /\ raised \in SynthesisErrors
  /\ chunkIdx >= 2
  /\ chunkIdx + 1 < req.n

\* C20: every successful audio pipeline run returns a result in which output
\* path, file size, estimated duration, chunk count and format are defined;
\* the job result of the audio endpoint therefore carries a file size and
\* an estimated duration.
C20_ResultFieldsDefined ==
  /\ ~audioResult.isNull =>
       {"outputPath", "fileSize", "estimatedDuration", "chunks", "format"}
         \subseteq audioResult.fields
  /\ (Started /\ req.endpoint = "audio" /\ ~Job.result.isNull) =>
       {"fileSize", "estimatedDuration"} \subseteq Job.result.fields

----------------------------------------------------------------------------
(* Claims about the job map over time *)

\* C5: while a job's task is running, a job-status lookup for its id finds
\* the record; the eviction sweep never removes the job of a running task.
C5_RunningJobIsFound ==
  \A j \in SweepJobIds :
    swTask[j] = "running" => GetJobStatus(activeJobs, j).code = 200

\* C6: each eviction sweep removes exactly the jobs last updated more than
\* 30 minutes before it and leaves every other record as it was.
C6_SweepRemovesExactlyExpired ==
  [][lastSweep' # lastSweep =>
       activeJobs' =
         [j \in {k \in DOMAIN activeJobs :
                   now - activeJobs[k].lastUpdate <= 30} |-> activeJobs[j]]]_vars

\* A sweep has just removed a job last updated 31 minutes before it and kept
\* one last updated exactly 30 minutes before it
C6_Witness ==
  /\ now = lastSweep.at
  /\ \E j \in DOMAIN lastSweep.removed :
       lastSweep.at - lastSweep.removed[j].lastUpdate = 31
  /\ \E k \in DOMAIN activeJobs : now - activeJobs[k].lastUpdate = 30

----------------------------------------------------------------------------
(* Claims about chapter-based script generation *)

\* Every one of the MaxRetries text-generation calls of chapter c threw
AllAttemptsFailed(c) ==
  \A a \in 1..MaxRetries :
    \E k \in 1..Len(swCalls) :
      swCalls[k] = [chapter |-> c, attempt |-> a, outcome |-> "error"]

\* C10: if the text-generation call of some chapter fails on all of its
\* attempts, generation ends with an error, no later chapter is requested,
\* no script file is written and no script is returned.
C10_ExhaustedErrorsFail ==
  \A c \in 1..swPreview :
    AllAttemptsFailed(c) =>
      /\ swPc = "done"
      /\ swOut.error # "null"
      /\ ~swOut.saved
      /\ swOut.returned = << >>
      /\ \A k \in 1..Len(swCalls) : swCalls[k].chapter <= c

\* The second chapter's calls all failed after the first chapter was
\* accepted, with a third chapter still to come
C10_Witness ==
  /\ swPreview >= 3
  /\ AllAttemptsFailed(2)
  /\ Len(swChunks) = 1

\* Every one of the MaxRetries replies for chapter c failed validation
AllAttemptsInvalid(c) ==
  \A a \in 1..MaxRetries :
    \E k \in 1..Len(swCalls) :
      swCalls[k] = [chapter |-> c, attempt |-> a, outcome |-> "invalid"]

\* C11: if all three attempts of a chapter return text that fails
\* validation, the third attempt's text is accepted without an error, the
\* next chapter is requested, and the chapter's chapterStats entry records
\* that validation did not pass.
C11_ExhaustedValidationAccepts ==
  \A c \in 1..swPreview :
    AllAttemptsInvalid(c) =>
      /\ Len(swChunks) >= c
      /\ swChunks[c] = [chapter |-> c, attempt |-> 3, valid |-> FALSE]
      /\ Len(swOut.chapterStats) >= c
      /\ swOut.chapterStats[c] = [chapterNumber |-> c, isValid |-> FALSE]
      /\ c < swPreview =>
           \E k \in 1..Len(swCalls) :
             swCalls[k].chapter = c + 1 /\ swCalls[k].attempt = 1
      /\ c = swPreview =>
           swPc \in {"save", "done"} /\ swOut.error # ChapterFailedError

\* The first chapter was accepted after three invalid replies and the second
\* chapter has been requested
C11_Witness ==
  /\ swPreview >= 2
  /\ AllAttemptsInvalid(1)
  /\ \E k \in 1..Len(swCalls) : swCalls[k].chapter = 2

\* The calls that were a second or third attempt, in the order issued
IsRetry(call) == call.attempt >= 2
Retries == SelectSeq(swCalls, IsRetry)

\* C12: each chapter gets at most 3 text-generation calls, whatever mix of
\* validation failures and service errors; generation of a chapter stops at
\* the first reply that passes validation and returns that reply; the wait
\* before the second attempt is 1 second and before the third 2 seconds,
\* after a validation failure as after an error.
C12_RetryBudgetAndBackoff ==
  /\ \A c \in 1..swPreview :
       Cardinality({k \in 1..Len(swCalls) : swCalls[k].chapter = c}) <= 3
  /\ \A k \in 1..Len(swCalls) :
       /\ swCalls[k].attempt \in 1..3
       /\ swCalls[k].outcome = "valid" =>
            /\ \A j \in (k + 1)..Len(swCalls) :
                 swCalls[j].chapter # swCalls[k].chapter
            /\ swChunks[swCalls[k].chapter] =
                 [chapter |-> swCalls[k].chapter,
                  attempt |-> swCalls[k].attempt, valid |-> TRUE]
  /\ Len(swOut.waited) >= Len(Retries)
  /\ \A j \in 1..Len(Retries) :
       swOut.waited[j] = IF Retries[j].attempt = 2 THEN 1000 ELSE 2000

\* A chapter whose first reply failed validation, whose second reply also
\* failed validation and whose third reply was valid
C12_Witness ==
  \E k \in 1..Len(swCalls) :
    /\ k + 2 <= Len(swCalls)
    /\ swCalls[k].attempt = 1 /\ swCalls[k].outcome = "invalid"
    /\ swCalls[k + 1].attempt = 2 /\ swCalls[k + 1].outcome = "invalid"
    /\ swCalls[k + 2].attempt = 3 /\ swCalls[k + 2].outcome = "valid"

\* C13: a script request whose preview has zero chapters fails with an
\* error before any text-generation call for the script body is made, for
\* every target duration.  (On the route "single" the body call has been
\* issued.)
C13_ZeroChaptersFail ==
  (swReq.path # "none" /\ swPreview = 0) =>
    /\ swReq.path = "chapters"
    /\ swPc = "done"
    /\ swOut.error = NoChaptersError
    /\ swCalls = << >>

\* The target duration of the request: options.duration, or the entry
\* point's default for it
TargetDuration ==
  OrDefault(swReq.duration,
            IF swReq.entry = "generateScriptFromPreview"
            THEN swReq.estimated ELSE DefaultDuration)

\* C14: a script request is routed to the per-chapter path if and only if
\* its target duration is at least 20 minutes, from every entry point.
C14_RoutesByDuration ==
  (swReq.path # "none" /\ swReq.entry # "generateLongScriptFromPreview") =>
    (swReq.path = "chapters" <=> TargetDuration >= 20)

----------------------------------------------------------------------------
(* Claims about the pure functions *)

\* C15: the audio pipeline takes the single-chunk path, without splitting
\* the text, exactly when the script length is at most chunkSize, and the
\* multi-chunk path, with the splitter invoked, exactly when it is greater,
\* in the plain and in the progress-reporting variant.
C15_ChunkingBoundary ==
  (fn.name = "generateAudioFromScript" /\ fn.result.path # "error") =>
    /\ fn.result.path = "single" <=> Len(fn.text) <= fn.chunkSize
    /\ fn.result.path = "multi" <=> Len(fn.text) > fn.chunkSize
    /\ fn.result.split <=> fn.result.path = "multi"

\* The plain variant is given a script of exactly chunkSize characters
C15_Witness ==
  /\ fn.name = "generateAudioFromScript"
  /\ fn.variant = "plain"
  /\ fn.chunkSize >= 2
  /\ Len(fn.text) = fn.chunkSize
  /\ fn.result.path = "single"

\* C17: the chapter validator reports the first failing rule in the order
\* too few words (below half the expected count), too many words (above
\* twice the expected count), fewer than 100 characters, placeholder text,
\* off-topic; word counts equal to half or twice the expected count pass
\* the first two rules.
C17_FirstFailingRuleWins ==
  fn.name = "validateChapterContent" =>
    LET c == fn.content
        expected == fn.expectedTenths * 20
        verdict ==
          CASE 2 * c.wordCount < expected -> "Too short"
            [] c.wordCount > 2 * expected -> "Too long"
            [] c.trimmedLength < 100 -> "Content too short"
            [] c.bracket \/ c.todo -> "Content contains placeholder text"
            [] c.titleWords > 1 /\ c.keywordMatches = 0 ->
                 "Content does not seem related"
            [] OTHER -> "none"
    IN /\ fn.result.reason = verdict
       /\ fn.result.isValid <=> verdict = "none"

\* A text of exactly half the expected word count, shorter than 100
\* characters and with a bracket in it, is reported as too short in
\* characters
C17_Witness ==
  /\ fn.name = "validateChapterContent"
  /\ fn.content.wordCount * 2 = fn.expectedTenths * 20
  /\ fn.content.trimmedLength < 100
  /\ fn.content.bracket
  /\ fn.result.reason = "Content too short"

\* C18: for every non-empty text and every chunk size of at least 1 the
\* splitter returns a non-empty sequence of chunks, each of non-zero length.
C18_SplitNonEmpty ==
  (fn.name = "splitTextIntoChunks" /\ fn.text # << >>) =>
    /\ fn.result # << >>
    /\ \A k \in 1..Len(fn.result) : Len(fn.result[k]) > 0

\* The number of occurrences of character c in text s
RECURSIVE Count(_, _)
Count(c, s) ==
  IF s = << >> THEN 0
  ELSE (IF Head(s) = c THEN 1 ELSE 0) + Count(c, Tail(s))

\* The number of occurrences of character c in all the chunks together
RECURSIVE CountAll(_, _)
CountAll(c, chunks) ==
  IF chunks = << >> THEN 0
  ELSE Count(c, Head(chunks)) + CountAll(c, Tail(chunks))

\* C19: the chunks of the splitter, overlap aside, give back the original
\* text: nothing of the input is lost.  Every character of the text other
\* than white space occurs in the chunks at least as often as in the text.
C19_NothingLost ==
  fn.name = "splitTextIntoChunks" =>
    \A c \in Chars \ {" "} :
      CountAll(c, fn.result) >= Count(c, fn.text)

----------------------------------------------------------------------------
(* Claims about the client's polling fallback *)

RejectionOf(resp) == IF resp.error # "null" THEN resp.error ELSE JobFailedError

C30_NotFoundStopsPolling ==
  poll.last.code = 404
    => /\ ~poll.interval
       /\ poll.outcome = [state |-> "rejected", value |-> NotFoundError]

----------------------------------------------------------------------------
(* Further claims about the pure functions *)

\* C24: for every duration d in 1..180 the number of chapters requested
\* from the outline generator is ceil(d / 2) clamped to 3..8 (ceil(d / 2)
\* being the least k with 2k >= d); for d = 1, 2, 4, 10, 20 it is
\* 3, 3, 3, 5, 8.
C24_NumChaptersClamped ==
  fn.name = "numChapters"
    => LET d == fn.duration
           half == CHOOSE k \in 0..MaxDuration : 2 * k >= d /\ 2 * (k - 1) < d
       IN  /\ half < 3 => fn.result = 3
           /\ half > 8 => fn.result = 8
           /\ half \in 3..8 => fn.result = half
           /\ d \in {1, 2, 4} => fn.result = 3
           /\ d = 10 => fn.result = 5
           /\ d = 20 => fn.result = 8

\* an odd duration whose half is rounded up and lies inside the clamp
C24_Witness ==
  /\ fn.name = "numChapters"
  /\ fn.duration = 9
  /\ fn.result = 5

\* C28: the continuity excerpt in the prompt of chapter i > 1 is the final
\* (up to) 500 characters of the accepted text of chapter i - 1, and the
\* prompt of chapter 1 has no continuity excerpt.
C28_ExcerptIsChapterEnding ==
  fn.name = "buildChapterPrompt"
    => IF fn.chapterNumber = 1
       THEN ~fn.result.present
       ELSE /\ fn.result.present
            /\ fn.result.excerpt = LastN(fn.chunks[fn.chapterNumber - 1],
                                         ExcerptSize)

WellFormedTags(lines) ==
  LET IsWellFormed(i) == lines[i] = "chapter"
  IN  SelectSeq([i \in 1..Len(lines) |-> i], IsWellFormed)

DescriptionAfter(lines, tag) ==
  LET stops == {j \in (tag + 1)..Len(lines) :
                  lines[j] \in {"chapter", "badchapter", "meta"}}
      stop == IF stops = {} THEN Len(lines) + 1
              ELSE CHOOSE j \in stops : \A k \in stops : j <= k
      NonEmpty(i) == lines[i] # "blank"
  IN  SelectSeq([k \in 1..(stop - tag - 1) |-> tag + k], NonEmpty)

\* C27: the outline parser returns exactly one chapter per well-formed
\* chapter-tag line, in input order and none twice; each description is
\* made of the non-empty lines after the tag up to the next chapter tag or
\* metadata tag; a chapter tag without a title adds nothing.
C27_OneChapterPerTag ==
  fn.name = "parsePreview"
    => LET tags == WellFormedTags(fn.lines)
       IN  /\ Len(fn.result) = Len(tags)
           /\ \A k \in 1..Len(tags) :
                /\ fn.result[k].tag = tags[k]
                /\ fn.result[k].description =
                     DescriptionAfter(fn.lines, tags[k])

\* C26: after a successful multi-chunk run with n chunks the output file
\* holds the audio of chunks 0..n-1 in order, each once, and no per-chunk
\* temp file remains on disk.
C26_OutputIsConcatenation ==
  fn.name = "generateLongAudio"
    => LET r == fn.result
       IN  /\ r.outputPath \in DOMAIN r.fs
           /\ r.fs[r.outputPath] = [k \in 1..fn.n |-> k - 1]
           /\ \A k \in 1..fn.n :
                r.tempAudioFiles[k] \notin DOMAIN r.fs \ {r.outputPath}

----------------------------------------------------------------------------
(* Further claims about the streaming request's task *)

IsChunkStart(e) == e.type = "chunk_start"
ChunkStarts == SelectSeq(stream, IsChunkStart)

\* C25: in a multi-chunk audio run with n chunks the 'chunk_start' event
\* of chunk i carries progress round(i / n x 90) (the events of the audio
\* endpoint reach the client unchanged, the k-th of them belongs to chunk
\* k - 1).
C25_ChunkStartProgress ==
  req.endpoint = "audio" /\ req.long
    => \A k \in 1..Len(ChunkStarts) :
         ChunkStarts[k].progress = Round((k - 1) * 90, req.n)

IsTerminalEvent(e) == e.type \in Terminal
TerminalEvents == SelectSeq(stream, IsTerminalEvent)

\* C29: on a streaming request whose client stays connected, once the
\* stream is ended exactly one terminal event ('complete' or 'error') has
\* been written, and it is the last event of the stream.
C29_OneTerminalEventLast ==
  streamEnded /\ connected
    => /\ Len(TerminalEvents) = 1
       /\ stream[Len(stream)].type \in Terminal

----------------------------------------------------------------------------
(* Claims about two concurrent streaming requests *)

Running(r) == pair[r].pc \notin {"idle", "done"}
PathsOf(r) ==
  {pair[r].tempFile, pair[r].outputPath, pair[r].tempPath} \ {NoPath}

\* C21: two jobs running concurrently use no filesystem path in common:
\* the temp text file, the chunk temp file and the output file of one are
\* distinct from those of the other.
C21_PathsDistinct ==
  \A r1, r2 \in Requests :
    r1 # r2 /\ Running(r1) /\ Running(r2) => PathsOf(r1) \cap PathsOf(r2) = {}

\* C22: while a job's task runs, a status lookup of its id finds the
\* record that task writes; no other request has replaced it.
C22_IdRefersToOwnRecord ==
  \A r \in Requests :
    Running(r) => pair[r].jobId \in DOMAIN jobRef /\ jobRef[pair[r].jobId] = r

====
